---- MODULE Spec2Model ----
(***************************************************************************)
(* The AFF4 cron scheduler of grr_response_server/aff4_objects/cronjobs.py *)
(* as a state machine: the job records of the data store, the flows of the *)
(* execution engine, the statistics counters, and the position of every    *)
(* thread inside CronWorker._RunLoop / CronManager.RunOnce / CronJob.Run.  *)
(*                                                                         *)
(* Time is counted in ticks.  An AFF4 object opened by a thread is a local *)
(* copy of the record (cron_job[w]); Set/DeleteAttribute change the copy   *)
(* and Flush writes the changed attributes back to the store.              *)
(***************************************************************************)
EXTENDS Integers, Sequences, FiniteSets, TLC

\* ------------------------------------------------------------------ bounds
MaxTime == 2        \* the clock runs over 0..MaxTime
MaxForced == 1      \* RunOnce(force=True) calls made by the callers
MaxErrors == 1      \* exceptions raised inside CronJob.Run
MaxFlows == 2       \* the job is created again while fewer flows were started
MaxRuns == 3        \* the flows found below the jobs when DeleteOldRuns is called
MaxUid == 1         \* random.UInt16() draws from 0..MaxUid

\* --------------------------------------------------------------- universe
Jobs == {"A", "B"}
Workers == {"W1", "W2"}
CronWorkers == {"W1"}          \* threads running CronWorker._RunLoop
NoWorker == "nobody"
FlowThread == "flow"           \* the thread of a running StatefulSystemCronFlow
NoFlow == 0                    \* CURRENT_FLOW_URN not set
NoTime == -1                   \* LAST_RUN_TIME not set
NoJob == ""
NoState == {}                  \* the empty state: a dict without items
NoStateDict == <<>>            \* STATE_DICT not set: Get returns None
\* A state is a dict, the set of its (key, value) items. The states a flow
\* hands to WriteCronState, and the larger choice of SpecState.
States == {NoState, {<<"watermark", 1>>}}
StateDicts == States \cup {{<<"watermark", 2>>}, {<<"watermark", 1>>, <<"seen", 2>>}}

\* SystemCronFlow class attributes (1d and 20h, on the tick scale).
lease_time == 2                \* RunOnce: lease_time=600, in units of 300 s
sleep == 1                     \* CronWorker.sleep = 60 * 5, in units of 300 s
frequency == 2
lifetime == 1
allow_overruns == FALSE
enabled == TRUE

\* The registered SystemCronFlow classes and the possible values of
\* config.CONFIG["Cron.disabled_system_jobs"].
SystemCronFlows == {"A"}
DisabledSystemJobsConfigs == {{}, {"A"}, {"NoSuchFlow"}}

\* CreateJob line 57: job_id = "%s_%s" % (cron_args.flow_name, uid)
AutoJobId(flow_name, uid) == flow_name \o "_" \o ToString(uid)

\* The flow names CreateJob is called with and the ids it can make of them.
FlowNames == {"B"}
AutoJobIds == {AutoJobId(f, u) : f \in FlowNames, u \in 0..MaxUid}
JobIds == Jobs \cup AutoJobIds

\* The frequency values CreateJob is called with.
Frequencies == {1, 2}

NameLists == {<<"A">>, <<"B">>, <<"A", "B">>, <<"B", "A">>}

VARIABLES
  now,        \* rdfvalue.RDFDatetime.Now()
  jobs,       \* data store: job_id -> CronJob record
  lock,       \* data store: job_id -> holder of the lease
  flows,      \* execution engine: sequence of flows, the urn is the index
  stats,      \* stats_collector_instance counters
  pc,         \* position of each thread
  names,      \* RunOnce: the names of the pass
  idx,        \* RunOnce: index of the current urn in names
  force,      \* RunOnce: force argument
  cron_job,   \* RunOnce: the object opened with the lock
  forced,     \* number of forced RunOnce calls made so far
  lease,      \* data store: job_id -> expiry of a lease its holder left behind
  result      \* what the last call of a CronManager method returned or raised

vars == <<now, jobs, lock, flows, stats, pc, names, idx, force, cron_job, forced,
          lease, result>>

\* ---------------------------------------------------------------- records
CronArgs(p, l, o, s) ==
  [periodicity |-> p, lifetime |-> l, allow_overruns |-> o, start_time |-> s]

NewCronJob(args, dis) ==
  [cron_args |-> args, disabled |-> dis, current_flow_urn |-> NoFlow,
   last_run_time |-> NoTime, last_run_status |-> "NONE", state_dict |-> NoStateDict]

NoObject ==
  [urn |-> NoJob, cron_args |-> CronArgs(0, 0, FALSE, 0), disabled |-> FALSE,
   current_flow_urn |-> NoFlow, last_run_time |-> NoTime,
   last_run_status |-> "NONE"]

\* aff4.FACTORY.Open: the attributes of the record, copied into the object.
OpenObject(j) ==
  [urn |-> j, cron_args |-> jobs[j].cron_args, disabled |-> jobs[j].disabled,
   current_flow_urn |-> jobs[j].current_flow_urn,
   last_run_time |-> jobs[j].last_run_time,
   last_run_status |-> jobs[j].last_run_status]

\* A record store that takes the write to a deleted record and makes the
\* record anew from the attributes written.
FlushRunRecreates(j, obj) ==
  [k \in DOMAIN jobs \cup {j} |->
     [(IF k = j /\ j \notin DOMAIN jobs THEN NewCronJob(obj.cron_args, obj.disabled)
                                         ELSE jobs[k])
        EXCEPT !.current_flow_urn = IF k = j THEN obj.current_flow_urn ELSE @,
               !.last_run_time = IF k = j THEN obj.last_run_time ELSE @,
               !.last_run_status = IF k = j THEN obj.last_run_status ELSE @]]

\* A Flush that leaves LAST_RUN_TIME out.
FlushRunWithoutLastRunTime(j, obj) ==
  IF j \notin DOMAIN jobs THEN jobs
  ELSE [jobs EXCEPT ![j].current_flow_urn = obj.current_flow_urn,
                    ![j].last_run_status = obj.last_run_status]

\* Flush after Set/DeleteAttribute of the lock protected run attributes; the
\* record store takes no write to a record that was deleted.
FlushRun(j, obj) ==
  IF j \notin DOMAIN jobs THEN jobs
  ELSE [jobs EXCEPT ![j].current_flow_urn = obj.current_flow_urn,
                    ![j].last_run_time = obj.last_run_time,
                    ![j].last_run_status = obj.last_run_status]

\* The Flush of the attributes Run has Set (c: before, r: after): rejected
\* by the record store when the record was deleted, which raises in Run; the
\* counters KillOldFlows increments after StopCurrentRun are not reached.
Flushed(c, r) ==
  IF r.cj = c.cj \/ r.cj.urn \in DOMAIN jobs THEN r
  ELSE [r EXCEPT !.raised = TRUE,
                 !.st = IF r.st.cron_job_timeout # c.st.cron_job_timeout
                          THEN c.st ELSE r.st]

\* The arguments of the jobs found in the store at the start: periodicity,
\* lifetime (0: none), allow_overruns, start_time.
InitialCronArgs ==
  {CronArgs(1, 0, FALSE, 0), CronArgs(2, 1, FALSE, 0),
   CronArgs(1, 0, TRUE, 1)}

\* No CronManager method has returned yet.
NoResult ==
  [call |-> "none", job_id |-> NoJob, count |-> 0, raised |-> "", state |-> NoState]

Ret(w) == IF w \in CronWorkers THEN "sleep" ELSE "idle"

\* ------------------------------------------------------------------- Init
InitRest ==
  /\ lock = [j \in JobIds |-> NoWorker]
  /\ flows = <<>>
  /\ stats = [cron_internal_error |-> 0,
              cron_job_timeout |-> [j \in JobIds |-> 0],
              cron_job_failure |-> [j \in JobIds |-> 0],
              cron_job_latency |-> [j \in JobIds |-> 0]]
  /\ pc = [w \in Workers |-> IF w \in CronWorkers THEN "schedule" ELSE "idle"]
  /\ names = [w \in Workers |-> <<>>]
  /\ idx = [w \in Workers |-> 0]
  /\ force = [w \in Workers |-> FALSE]
  /\ cron_job = [w \in Workers |-> NoObject]
  /\ lease = [j \in JobIds |-> NoTime]
  /\ result = NoResult

Init ==
  /\ now = 0
  /\ forced = 0
  /\ InitRest
  /\ \E args \in InitialCronArgs : jobs = [j \in {"A"} |-> NewCronJob(args, FALSE)]

\* ------------------------------------------------------------ environment
Tick ==
  /\ now < MaxTime
  /\ now' = now + 1
  /\ UNCHANGED <<jobs, lock, flows, stats, pc, names, idx, force, cron_job, forced, lease, result>>

\* The execution engine finishes a running flow, in state TERMINATED or ERROR.
\* Only a flow that some job refers to is followed: no other flow is ever
\* opened by the scheduler.
Tracked(h) == \E j \in DOMAIN jobs : jobs[j].current_flow_urn = h

FlowFinish(h, outcome) ==
  /\ Tracked(h)
  /\ flows[h].state = "RUNNING"
  /\ flows' = [flows EXCEPT ![h].state = outcome]
  /\ UNCHANGED <<now, jobs, lock, stats, pc, names, idx, force, cron_job, forced, lease, result>>

\* ------------------------------------------------------- execution engine
\* flow.StartAFF4Flow: a new flow below the job's urn, made at time t; its
\* urn is returned.
StartAFF4Flow(fl, j, t) ==
  Append(fl, [job |-> j, state |-> "RUNNING", terminate |-> FALSE, age |-> t])

\* flow.GRRFlow.TerminateAFF4Flow: the request is handed to the engine.
TerminateAFF4Flow(fl, h) == [fl EXCEPT ![h].terminate = TRUE]

\* current_flow.GetRunner().IsRunning()
RunnerIsRunning(fl, h) == fl[h].state = "RUNNING"

\* ------------------------------------------------------------ CronManager
\* A CreateJob that takes the start_time of the new arguments.
CreatedArgsFresh(store, t, j, p, l, o) == CronArgs(p, l, o, t)

\* CreateJob lines 69-91: the arguments of the job; start_time is the
\* default of CreateCronJobFlowArgs (the time of the call) unless the job
\* exists with a start_time.
CreatedArgs(store, t, j, p, l, o) ==
  IF j \in DOMAIN store /\ store[j].cron_args.start_time # NoTime
    THEN CronArgs(p, l, o, store[j].cron_args.start_time)
    ELSE CronArgs(p, l, o, t)

\* A CreateJob that makes a new object in place of the one that is there.
CreatedJobsAnew(store, t, j, p, l, o, en) ==
  [k \in DOMAIN store \cup {j} |->
     IF k # j THEN store[k] ELSE NewCronJob(CronArgs(p, l, o, t), ~en)]

\* CreateJob lines 76-93: aff4.FACTORY.Create opens the object if it is
\* there and makes it if not; CRON_ARGS and DISABLED are set.
CreatedJobs(store, t, j, p, l, o, en) ==
  LET args == CreatedArgs(store, t, j, p, l, o) IN
  [k \in DOMAIN store \cup {j} |->
     IF k # j THEN store[k]
     ELSE IF j \in DOMAIN store
       THEN [store[j] EXCEPT !.cron_args = args, !.disabled = ~en]
       ELSE NewCronJob(args, ~en)]

\* CreateJob lines 55-57: the id given, or one made of a random number.
NewJobId(flow_name, job_id, uid) ==
  IF job_id # NoJob THEN job_id ELSE AutoJobId(flow_name, uid)

\* CronManager.CreateJob(cron_args, job_id, enabled); uid: random.UInt16().
CreateJob(flow_name, p, l, o, job_id, en, uid) ==
  LET j == NewJobId(flow_name, job_id, uid) IN
  /\ jobs' = CreatedJobs(jobs, now, j, p, l, o, en)
  /\ result' = [NoResult EXCEPT !.call = "CreateJob", !.job_id = j]
  /\ UNCHANGED <<now, lock, flows, stats, pc, names, idx, force, cron_job, forced,
                 lease>>

\* CronManager.DeleteJob: the object is deleted, no lease is taken.
DeleteJob(j) ==
  /\ j \in DOMAIN jobs
  /\ jobs' = [k \in DOMAIN jobs \ {j} |-> jobs[k]]
  /\ result' = [NoResult EXCEPT !.call = "DeleteJob"]
  /\ UNCHANGED <<now, lock, flows, stats, pc, names, idx, force, cron_job, forced,
                 lease>>

\* EnableJob / DisableJob: open, Set(DISABLED), Close; no lock is taken.
EnableJob(j) ==
  /\ j \in DOMAIN jobs
  /\ jobs[j].disabled
  /\ jobs' = [jobs EXCEPT ![j].disabled = FALSE]
  /\ UNCHANGED <<now, lock, flows, stats, pc, names, idx, force, cron_job, forced, lease, result>>

\* A DisableJob that asks for the lease of the job first.
DisableJobUnderLease(j) ==
  /\ j \in DOMAIN jobs
  /\ ~jobs[j].disabled
  /\ lock[j] = NoWorker \/ (lease[j] # NoTime /\ now >= lease[j])
  /\ jobs' = [jobs EXCEPT ![j].disabled = TRUE]
  /\ UNCHANGED <<now, lock, flows, stats, pc, names, idx, force, cron_job, forced, lease, result>>

DisableJob(j) ==
  /\ j \in DOMAIN jobs
  /\ ~jobs[j].disabled
  /\ jobs' = [jobs EXCEPT ![j].disabled = TRUE]
  /\ UNCHANGED <<now, lock, flows, stats, pc, names, idx, force, cron_job, forced, lease, result>>

\* ListJobs: the children of aff4:/cron, in some order.
ListJobs ==
  {s \in UNION {[1..n -> DOMAIN jobs] : n \in 0..Cardinality(Jobs)} :
     /\ Len(s) = Cardinality(DOMAIN jobs)
     /\ \A a, b \in 1..Len(s) : a # b => s[a] # s[b]}

\* The loop of RunOnce moves to the next urn, or RunOnce returns.
NextUrn(w) ==
  IF idx[w] < Len(names[w])
    THEN /\ pc' = [pc EXCEPT ![w] = "OpenWithLock"]
         /\ idx' = [idx EXCEPT ![w] = @ + 1]
         /\ UNCHANGED <<names, force>>
    ELSE /\ pc' = [pc EXCEPT ![w] = Ret(w)]
         /\ idx' = [idx EXCEPT ![w] = 0]
         /\ names' = [names EXCEPT ![w] = <<>>]
         /\ force' = [force EXCEPT ![w] = FALSE]

\* A caller (admin tool, test, another process) calls RunOnce(force, names).
CallRunOnce(w, f, ns) ==
  /\ pc[w] = "idle"
  /\ \A k \in 1..Len(ns) : ns[k] \in DOMAIN jobs
  /\ f => forced < MaxForced
  /\ forced' = IF f THEN forced + 1 ELSE forced
  /\ names' = [names EXCEPT ![w] = ns]
  /\ force' = [force EXCEPT ![w] = f]
  /\ idx' = [idx EXCEPT ![w] = 1]
  /\ pc' = [pc EXCEPT ![w] = "OpenWithLock"]
  /\ UNCHANGED <<now, jobs, lock, flows, stats, cron_job, lease, result>>

\* A RunOnce that goes on with the job although the lease was refused.
LockErrorIgnored(w) ==
  /\ cron_job' = [cron_job EXCEPT ![w] = OpenObject(names[w][idx[w]])]
  /\ pc' = [pc EXCEPT ![w] = "Run"]
  /\ UNCHANGED <<now, jobs, lock, flows, stats, names, idx, force, forced, lease, result>>

\* A RunOnce whose pass ends at the first refused lease.
LockErrorPropagates(w) ==
  /\ pc' = [pc EXCEPT ![w] = Ret(w)]
  /\ idx' = [idx EXCEPT ![w] = 0]
  /\ names' = [names EXCEPT ![w] = <<>>]
  /\ force' = [force EXCEPT ![w] = FALSE]
  /\ UNCHANGED <<now, jobs, lock, flows, stats, cron_job, forced, lease, result>>

\* RunOnce line 163: except aff4.LockError: pass.
LockErrorPass(w) ==
  /\ NextUrn(w)
  /\ UNCHANGED <<now, jobs, lock, flows, stats, cron_job, forced, lease, result>>

\* job.ListChildren(age=cutoff_timestamp): the flows below the job that were
\* made before the cutoff.  A flow the model no longer follows has no age
\* and is not listed.
ListChildren(fl, j, cutoff) ==
  {h \in 1..Len(fl) : /\ fl[h].job = j
                      /\ fl[h].state # "DELETED"
                      /\ fl[h].age # NoTime
                      /\ fl[h].age < cutoff}

\* aff4.FACTORY.MultiDelete(urns)
MultiDelete(fl, urns) ==
  [h \in 1..Len(fl) |-> IF h \in urns THEN [fl[h] EXCEPT !.state = "DELETED"]
                                      ELSE fl[h]]

\* A DeleteOldRuns that takes the present time for a missing cutoff.
DeleteOldRunsWithDefault(j, cutoff) ==
  /\ j \in DOMAIN jobs
  /\ LET child_flows == ListChildren(flows, j, IF cutoff = NoTime THEN now ELSE cutoff) IN
       /\ flows' = MultiDelete(flows, child_flows)
       /\ result' = [NoResult EXCEPT !.call = "DeleteOldRuns",
                                     !.count = Cardinality(child_flows)]
  /\ UNCHANGED <<now, jobs, lock, stats, pc, names, idx, force, cron_job, forced, lease>>

\* DeleteOldRuns(job, cutoff_timestamp); NoTime stands for None.
DeleteOldRuns(j, cutoff) ==
  /\ j \in DOMAIN jobs
  /\ IF cutoff = NoTime
       THEN /\ result' = [NoResult EXCEPT !.call = "DeleteOldRuns",
                                          !.raised = "ValueError"]
            /\ flows' = flows
       ELSE LET child_flows == ListChildren(flows, j, cutoff) IN
            /\ flows' = MultiDelete(flows, child_flows)
            /\ result' = [NoResult EXCEPT !.call = "DeleteOldRuns",
                                          !.count = Cardinality(child_flows)]
  /\ UNCHANGED <<now, jobs, lock, stats, pc, names, idx, force, cron_job, forced, lease>>

\* aff4.FACTORY.OpenWithLock(urn, blocking=False, lease_time=600): the lease
\* is taken and the object opened, or LockError is raised at once.
LockFree(j) == lock[j] = NoWorker \/ (lease[j] # NoTime /\ now >= lease[j])

\* RunOnce lines 151-164: the urn is no CronJob any more; the error of the
\* open is no LockError and leaves RunOnce.
OpenFails(w) ==
  /\ pc' = [pc EXCEPT ![w] = IF w \in CronWorkers THEN "log_error" ELSE "idle"]
  /\ idx' = [idx EXCEPT ![w] = 0]
  /\ names' = [names EXCEPT ![w] = <<>>]
  /\ force' = [force EXCEPT ![w] = FALSE]
  /\ UNCHANGED <<now, jobs, lock, flows, stats, cron_job, forced, lease, result>>

OpenWithLock(w) ==
  /\ pc[w] = "OpenWithLock"
  /\ LET j == names[w][idx[w]] IN
       IF j \notin DOMAIN jobs THEN OpenFails(w)
       ELSE IF LockFree(j)
         THEN /\ lock' = [lock EXCEPT ![j] = w]
              /\ lease' = [lease EXCEPT ![j] = NoTime]
              /\ cron_job' = [cron_job EXCEPT ![w] = OpenObject(j)]
              /\ pc' = [pc EXCEPT ![w] = "Run"]
              /\ UNCHANGED <<now, jobs, flows, stats, names, idx, force, forced, result>>
         ELSE LockErrorPass(w)

\* A process that dies inside the with block and leaves a lease of one
\* sleep interval behind.
OpenWithLockShortLease(w) ==
  /\ pc[w] = "OpenWithLock"
  /\ LockFree(names[w][idx[w]])
  /\ lock' = [lock EXCEPT ![names[w][idx[w]]] = w]
  /\ lease' = [lease EXCEPT ![names[w][idx[w]]] = now + sleep]
  /\ pc' = [pc EXCEPT ![w] = "crashed"]
  /\ UNCHANGED <<now, jobs, flows, stats, names, idx, force, cron_job, forced, result>>

\* The process of thread w dies inside the with block of RunOnce: nothing
\* releases the lease, which lasts lease_time from the OpenWithLock on.
OpenWithLockThenCrash(w) ==
  /\ pc[w] = "OpenWithLock"
  /\ LockFree(names[w][idx[w]])
  /\ lock' = [lock EXCEPT ![names[w][idx[w]]] = w]
  /\ lease' = [lease EXCEPT ![names[w][idx[w]]] = now + lease_time]
  /\ pc' = [pc EXCEPT ![w] = "crashed"]
  /\ UNCHANGED <<now, jobs, flows, stats, names, idx, force, cron_job, forced, result>>

\* ------------------------------------------------------------- CronWorker
\* ScheduleSystemCronFlows: every SystemCronFlow class gets its job; an
\* unknown name in Cron.disabled_system_jobs raises ValueError at the end.
ScheduledJob(name, conf) ==
  LET cron_args == CronArgs(frequency, lifetime, allow_overruns, 0)
      is_enabled == IF enabled THEN name \notin conf ELSE FALSE
  IN IF name \in DOMAIN jobs
       THEN [jobs[name] EXCEPT !.cron_args = cron_args, !.disabled = ~is_enabled]
       ELSE NewCronJob(cron_args, ~is_enabled)

ScheduleRaises(conf) == conf \ SystemCronFlows # {}

\* _RunLoop line 325: ScheduleSystemCronFlows is called outside the try.
AfterSchedule(w, conf) ==
  pc' = [pc EXCEPT ![w] = IF ScheduleRaises(conf) THEN "dead" ELSE "RunOnce"]

ScheduleSystemCronFlows(w, conf) ==
  /\ pc[w] = "schedule"
  /\ jobs' = [j \in DOMAIN jobs \cup SystemCronFlows |->
               IF j \in SystemCronFlows THEN ScheduledJob(j, conf) ELSE jobs[j]]
  /\ AfterSchedule(w, conf)
  /\ UNCHANGED <<now, lock, flows, stats, names, idx, force, cron_job, forced, lease, result>>

\* _RunLoop line 329: RunOnce(token) is called; ListJobs gives the names,
\* or the data store raises and the exception leaves RunOnce.
LoopRunOnce(w, ns, raises) ==
  /\ pc[w] = "RunOnce"
  /\ IF raises
       THEN /\ pc' = [pc EXCEPT ![w] = "log_error"]
            /\ UNCHANGED <<names, idx>>
       ELSE /\ names' = [names EXCEPT ![w] = ns]
            /\ idx' = [idx EXCEPT ![w] = IF ns = <<>> THEN 0 ELSE 1]
            /\ pc' = [pc EXCEPT ![w] = IF ns = <<>> THEN "sleep" ELSE "OpenWithLock"]
  /\ UNCHANGED <<now, jobs, lock, flows, stats, force, cron_job, forced, lease, result>>

\* A loop that ends at the first exception of RunOnce.
AfterExceptionStops(w) == pc' = [pc EXCEPT ![w] = "dead"]

\* _RunLoop lines 330-331: the exception is logged, the loop goes on.
AfterException(w) == pc' = [pc EXCEPT ![w] = "sleep"]

LogError(w) ==
  /\ pc[w] = "log_error"
  /\ AfterException(w)
  /\ UNCHANGED <<now, jobs, lock, flows, stats, names, idx, force, cron_job, forced, lease, result>>

\* _RunLoop line 333: time.sleep(self.sleep) returns.
Sleep(w) ==
  /\ pc[w] = "sleep"
  /\ pc' = [pc EXCEPT ![w] = "RunOnce"]
  /\ UNCHANGED <<now, jobs, lock, flows, stats, names, idx, force, cron_job, forced, lease, result>>

\* _RunLoop line 333: time.sleep(self.sleep), with the time it takes.
SleepFor(w) ==
  /\ pc[w] = "sleep"
  /\ now + sleep <= MaxTime
  /\ now' = now + sleep
  /\ pc' = [pc EXCEPT ![w] = "RunOnce"]
  /\ UNCHANGED <<jobs, lock, flows, stats, names, idx, force, cron_job, forced, lease, result>>

\* ---------------------------------------------------------------- CronJob
\* rdfvalue.Duration.Expiry(base_time)
Expiry(periodicity, base_time) == base_time + periodicity

\* A DueToRun without the check of the current run.
DueToRunIgnoringCurrentRun(cj, t) ==
  IF cj.disabled THEN FALSE
  ELSE IF cj.last_run_time = NoTime
          \/ t > Expiry(cj.cron_args.periodicity, cj.last_run_time)
    THEN t >= cj.cron_args.start_time
    ELSE FALSE

\* A DueToRun without the check of DISABLED.
DueToRunIgnoringDisabled(cj, t) ==
  IF cj.last_run_time = NoTime
     \/ t > Expiry(cj.cron_args.periodicity, cj.last_run_time)
    THEN IF t < cj.cron_args.start_time THEN FALSE
         ELSE IF cj.cron_args.allow_overruns THEN TRUE
         ELSE cj.current_flow_urn = NoFlow
    ELSE FALSE

\* A DueToRun that is true already at the expiry of the period.
DueToRunAtExpiry(cj, t) ==
  IF cj.disabled THEN FALSE
  ELSE IF cj.last_run_time = NoTime
          \/ t >= Expiry(cj.cron_args.periodicity, cj.last_run_time)
    THEN IF t < cj.cron_args.start_time THEN FALSE
         ELSE IF cj.cron_args.allow_overruns THEN TRUE
         ELSE cj.current_flow_urn = NoFlow
    ELSE FALSE

\* A DueToRun without the check of the period.
DueToRunInsidePeriod(cj, t) ==
  IF cj.disabled THEN FALSE
  ELSE IF t < cj.cron_args.start_time THEN FALSE
       ELSE IF cj.cron_args.allow_overruns THEN TRUE
       ELSE cj.current_flow_urn = NoFlow

DueToRun(cj, t) ==
  IF cj.disabled THEN FALSE
  ELSE IF cj.last_run_time = NoTime
          \/ t > Expiry(cj.cron_args.periodicity, cj.last_run_time)
    THEN IF t < cj.cron_args.start_time THEN FALSE
         ELSE IF cj.cron_args.allow_overruns THEN TRUE
         ELSE IF cj.current_flow_urn = NoFlow THEN TRUE
         ELSE FALSE
    ELSE FALSE

\* KillOldFlows line 467: lifetime and elapsed > lifetime.
LifetimeExceeded(cj, t) ==
  cj.cron_args.lifetime # 0 /\ t - cj.last_run_time > cj.cron_args.lifetime

\* Run line 524: the run is started unless (not force and not DueToRun()).
StartsRun(f, cj, t) == f \/ DueToRun(cj, t)

\* CronJob.Run works on a context: the object (cj), the flows of the engine
\* (fl), the counters (st) and whether an exception is on its way (raised).

\* IsRunning, lines 392-408; is_flow: the current urn opens as a GRRFlow.
IsRunning(c, is_flow) ==
  c.cj.current_flow_urn # NoFlow /\ is_flow
    /\ RunnerIsRunning(c.fl, c.cj.current_flow_urn)

\* IsRunning lines 401-406: InstantiationError, the urn is cleared out.
ClearedByIsRunning(c, is_flow) ==
  IF c.cj.current_flow_urn # NoFlow /\ ~is_flow
    THEN [c EXCEPT !.cj.current_flow_urn = NoFlow]
    ELSE c

\* A StopCurrentRun that leaves CURRENT_FLOW_URN in place.
StopCurrentRunKeepsUrn(c) ==
  IF c.cj.current_flow_urn # NoFlow
    THEN [c EXCEPT !.fl = TerminateAFF4Flow(c.fl, c.cj.current_flow_urn),
                   !.cj.last_run_status = "TIMEOUT"]
    ELSE c

\* A StopCurrentRun that does not ask the engine to terminate the flow.
StopCurrentRunWithoutTerminate(c) ==
  IF c.cj.current_flow_urn # NoFlow
    THEN [c EXCEPT !.cj.last_run_status = "TIMEOUT",
                   !.cj.current_flow_urn = NoFlow]
    ELSE c

\* StopCurrentRun, lines 441-451.
StopCurrentRun(c) ==
  IF c.cj.current_flow_urn # NoFlow
    THEN [c EXCEPT !.fl = TerminateAFF4Flow(c.fl, c.cj.current_flow_urn),
                   !.cj.last_run_status = "TIMEOUT",
                   !.cj.current_flow_urn = NoFlow]
    ELSE c

\* KillOldFlows, lines 453-475 (Now() - None raises TypeError).
KillOldFlows(c, t, is_flow) ==
  IF ~IsRunning(c, is_flow) THEN ClearedByIsRunning(c, is_flow)
  ELSE IF c.cj.last_run_time = NoTime THEN [c EXCEPT !.raised = TRUE]
  ELSE IF LifetimeExceeded(c.cj, t)
    THEN [StopCurrentRun(c) EXCEPT
            !.st.cron_job_timeout[c.cj.urn] = @ + 1,
            !.st.cron_job_latency[c.cj.urn] = @ + 1]
  ELSE c

\* A reaping that does not ask the runner whether the flow is running.
ReapWithoutIsRunning(c, opens) ==
  LET h == c.cj.current_flow_urn IN
  IF h = NoFlow THEN c
  ELSE IF ~opens THEN [c EXCEPT !.raised = TRUE]
  ELSE IF c.fl[h].state = "ERROR"
    THEN [c EXCEPT !.cj.last_run_status = "ERROR",
                   !.st.cron_job_failure[c.cj.urn] = @ + 1,
                   !.cj.current_flow_urn = NoFlow]
  ELSE [c EXCEPT !.cj.last_run_status = "OK",
                 !.st.cron_job_latency[c.cj.urn] = @ + 1,
                 !.cj.current_flow_urn = NoFlow]

\* A reaping that records the latency of a failed run too.
ReapWithLatencyOnError(c, opens) ==
  LET h == c.cj.current_flow_urn IN
  IF h = NoFlow THEN c
  ELSE IF ~opens THEN [c EXCEPT !.raised = TRUE]
  ELSE IF RunnerIsRunning(c.fl, h) THEN c
  ELSE IF c.fl[h].state = "ERROR"
    THEN [c EXCEPT !.cj.last_run_status = "ERROR",
                   !.st.cron_job_failure[c.cj.urn] = @ + 1,
                   !.st.cron_job_latency[c.cj.urn] = @ + 1,
                   !.cj.current_flow_urn = NoFlow]
  ELSE [c EXCEPT !.cj.last_run_status = "OK",
                 !.st.cron_job_latency[c.cj.urn] = @ + 1,
                 !.cj.current_flow_urn = NoFlow]

\* Run lines 497-522: a finished current flow updates the state; opens: the
\* urn can be opened and has a runner (otherwise an exception is raised).
ReapFinished(c, opens) ==
  LET h == c.cj.current_flow_urn IN
  IF h = NoFlow THEN c
  ELSE IF ~opens THEN [c EXCEPT !.raised = TRUE]
  ELSE IF RunnerIsRunning(c.fl, h) THEN c
  ELSE IF c.fl[h].state = "ERROR"
    THEN [c EXCEPT !.cj.last_run_status = "ERROR",
                   !.st.cron_job_failure[c.cj.urn] = @ + 1,
                   !.cj.current_flow_urn = NoFlow]
  ELSE [c EXCEPT !.cj.last_run_status = "OK",
                 !.st.cron_job_latency[c.cj.urn] = @ + 1,
                 !.cj.current_flow_urn = NoFlow]

\* A start of the run that does not set LAST_RUN_TIME.
StartRunWithoutLastRunTime(c, t, f) ==
  IF ~StartsRun(f, c.cj, t) THEN c
  ELSE LET started == StartAFF4Flow(c.fl, c.cj.urn, t) IN
       [c EXCEPT !.fl = started,
                 !.cj.current_flow_urn = Len(started)]

\* Run lines 524-539: the due check and the start of the run.
StartRun(c, t, f) ==
  IF ~StartsRun(f, c.cj, t) THEN c
  ELSE LET started == StartAFF4Flow(c.fl, c.cj.urn, t) IN
       [c EXCEPT !.fl = started,
                 !.cj.current_flow_urn = Len(started),
                 !.cj.last_run_time = t]

\* A Run without the check of self.locked.
RunWithoutLockCheck(c, t, locked, is_flow, opens) ==
  LET killed == KillOldFlows(c, t, is_flow) IN
  IF killed.raised THEN killed ELSE ReapFinished(killed, opens)

\* A Run that goes to the due check without reaping the finished flow.
RunWithoutReaping(c, t, locked, is_flow, opens) ==
  IF ~locked THEN [c EXCEPT !.raised = TRUE]
  ELSE KillOldFlows(c, t, is_flow)

\* Run lines 492-522: the lock check, KillOldFlows and the reaping of a
\* finished current flow.
RunUntilDueCheck(c, t, locked, is_flow, opens) ==
  IF ~locked THEN [c EXCEPT !.raised = TRUE]
  ELSE LET killed == KillOldFlows(c, t, is_flow) IN
       IF killed.raised THEN killed ELSE ReapFinished(killed, opens)

\* An except clause that lets the exception leave RunOnce.
HandleExceptionReraises(w) ==
  /\ stats' = stats
  /\ pc' = [pc EXCEPT ![w] = Ret(w)]

\* RunOnce lines 157-161: the exception of Run is logged and counted; the
\* with block is left in the normal way.
HandleException(w) ==
  /\ stats' = [stats EXCEPT !.cron_internal_error = @ + 1]
  /\ pc' = [pc EXCEPT ![w] = "Close"]

\* Where an exception of Run goes: to the except clause of RunOnce, or, when
\* Run was called outside RunOnce, to the caller.
Handler(w) == IF names[w] = <<>> THEN "raised" ELSE "except"

\* RunOnce line 156, cron_job.Run(force=force), up to the due check of line
\* 524.  Every Flush writes the run attributes that were Set to the store.
RunJob(w, is_flow, opens) ==
  /\ pc[w] = "Run"
  /\ ~opens => stats.cron_internal_error < MaxErrors
  /\ LET c == [cj |-> cron_job[w], fl |-> flows, st |-> stats, raised |-> FALSE]
         r == Flushed(c, RunUntilDueCheck(c, now, lock[cron_job[w].urn] = w, is_flow, opens))
     IN /\ cron_job' = [cron_job EXCEPT ![w] = r.cj]
        /\ jobs' = IF r.cj = cron_job[w] THEN jobs ELSE FlushRun(r.cj.urn, r.cj)
        /\ flows' = r.fl
        /\ stats' = r.st
        /\ pc' = [pc EXCEPT ![w] = IF r.raised THEN Handler(w) ELSE "due"]
  /\ UNCHANGED <<now, lock, names, idx, force, forced, lease, result>>

\* Run lines 524-539, the rest of cron_job.Run(force=force).
RunJobStart(w) ==
  /\ pc[w] = "due"
  /\ LET c == [cj |-> cron_job[w], fl |-> flows, st |-> stats, raised |-> FALSE]
         r == Flushed(c, StartRun(c, now, force[w]))
     IN /\ cron_job' = [cron_job EXCEPT ![w] = r.cj]
        /\ jobs' = IF r.cj = cron_job[w] THEN jobs ELSE FlushRun(r.cj.urn, r.cj)
        /\ flows' = r.fl
        /\ pc' = [pc EXCEPT ![w] = IF r.raised THEN Handler(w) ELSE "Close"]
  /\ UNCHANGED <<now, lock, stats, names, idx, force, forced, lease, result>>

\* RunOnce lines 157-161, the except clause around cron_job.Run.
Except(w) ==
  /\ pc[w] = "except"
  /\ HandleException(w)
  /\ UNCHANGED <<now, jobs, lock, flows, names, idx, force, cron_job, forced, lease, result>>

\* A flow its job no longer refers to is never opened again by the
\* scheduler: the model stops following it.
Forget(fl, j, h) ==
  [k \in 1..Len(fl) |->
     IF fl[k].job = j /\ k # h
       THEN [job |-> j, state |-> "UNTRACKED", terminate |-> FALSE, age |-> NoTime]
       ELSE fl[k]]

\* A with block that is left without the release of the lease.
CloseKeepsLease(w) ==
  /\ pc[w] = "Close"
  /\ flows' = Forget(flows, cron_job[w].urn, cron_job[w].current_flow_urn)
  /\ cron_job' = [cron_job EXCEPT ![w] = NoObject]
  /\ NextUrn(w)
  /\ UNCHANGED <<now, jobs, lock, stats, forced, lease, result>>

\* The end of the with block: Close releases the lease; next urn.
Close(w) ==
  /\ pc[w] = "Close"
  /\ flows' = Forget(flows, cron_job[w].urn, cron_job[w].current_flow_urn)
  /\ lock' = [lock EXCEPT ![cron_job[w].urn] = NoWorker]
  /\ cron_job' = [cron_job EXCEPT ![w] = NoObject]
  /\ NextUrn(w)
  /\ UNCHANGED <<now, jobs, stats, forced, lease, result>>

\* A caller opens the job without a lock and calls Run on the object.
CallRun(w, j, f) ==
  /\ pc[w] = "idle"
  /\ j \in DOMAIN jobs
  /\ cron_job' = [cron_job EXCEPT ![w] = OpenObject(j)]
  /\ force' = [force EXCEPT ![w] = f]
  /\ pc' = [pc EXCEPT ![w] = "Run"]
  /\ UNCHANGED <<now, jobs, lock, flows, stats, names, idx, forced, lease, result>>

\* The LockError of Run reaches the caller of Run.
Raised(w) ==
  /\ pc[w] = "raised"
  /\ pc' = [pc EXCEPT ![w] = "idle"]
  /\ cron_job' = [cron_job EXCEPT ![w] = NoObject]
  /\ force' = [force EXCEPT ![w] = FALSE]
  /\ result' = [NoResult EXCEPT !.call = "Run", !.raised = "LockError"]
  /\ UNCHANGED <<now, jobs, lock, flows, stats, names, idx, forced, lease>>

\* ------------------------------------------------- StatefulSystemCronFlow
\* cron_job.Schema.STATE_DICT(state): the dict becomes an rdf Dict, the list
\* of the KeyValue entries of its items.
RECURSIVE STATE_DICT(_)
STATE_DICT(state) ==
  IF state = {} THEN <<>>
  ELSE LET item == CHOOSE i \in state : TRUE
       IN <<[k |-> item[1], v |-> item[2]]>> \o STATE_DICT(state \ {item})

\* res.ToDict(): the dict of the KeyValue entries.
ToDict(res) == {<<res[i].k, res[i].v>> : i \in 1..Len(res)}

\* flow.AttributedDict(d): a dict with the items of d.
AttributedDict(d) == d

\* ReadCronState, lines 229-239: a plain Open, no lock.
ReadCronState(j) ==
  /\ IF j \notin DOMAIN jobs
       THEN result' = [NoResult EXCEPT !.call = "ReadCronState",
                                       !.raised = "StateReadError"]
       ELSE LET res == jobs[j].state_dict
            IN result' = [NoResult EXCEPT
                            !.call = "ReadCronState",
                            !.state = IF res # NoStateDict
                                        THEN AttributedDict(ToDict(res))
                                        ELSE AttributedDict({})]
  /\ UNCHANGED <<now, jobs, lock, flows, stats, pc, names, idx, force, cron_job, forced, lease>>

\* A WriteCronState without the early return for an empty state.
WriteCronStateOpenAnyState(j, state) ==
  /\ j \in DOMAIN jobs
  /\ lock[j] = NoWorker \/ (lease[j] # NoTime /\ now >= lease[j])
  /\ lock' = [lock EXCEPT ![j] = FlowThread]
  /\ lease' = [lease EXCEPT ![j] = NoTime]
  /\ UNCHANGED <<now, jobs, flows, stats, pc, names, idx, force, cron_job, forced, result>>

\* A WriteCronState that sets STATE_DICT without asking for the lock.
WriteCronStateUnlocked(j, state) ==
  /\ state # NoState
  /\ j \in DOMAIN jobs
  /\ jobs' = [jobs EXCEPT ![j].state_dict = STATE_DICT(state)]
  /\ UNCHANGED <<now, lock, flows, stats, pc, names, idx, force, cron_job, forced, lease, result>>

\* WriteCronState(state) up to the entry of the with block: an empty state
\* returns at once; OpenWithLock blocks until the lease is free.
WriteCronStateOpen(j, state) ==
  IF state = NoState
    THEN /\ result' = [NoResult EXCEPT !.call = "WriteCronState"]
         /\ UNCHANGED <<now, jobs, lock, flows, stats, pc, names, idx, force, cron_job, forced, lease>>
    ELSE IF j \notin DOMAIN jobs
      THEN /\ result' = [NoResult EXCEPT !.call = "WriteCronState",
                                         !.raised = "StateWriteError"]
           /\ UNCHANGED <<now, jobs, lock, flows, stats, pc, names, idx, force, cron_job, forced, lease>>
      ELSE /\ LockFree(j)
           /\ lock' = [lock EXCEPT ![j] = FlowThread]
           /\ lease' = [lease EXCEPT ![j] = NoTime]
           /\ UNCHANGED <<now, jobs, flows, stats, pc, names, idx, force, cron_job, forced, result>>

\* The with block of WriteCronState: Set(STATE_DICT); Close writes the
\* attribute and releases the lease.
WriteCronStateSet(j, state) ==
  /\ lock[j] = FlowThread
  /\ state # NoState
  /\ jobs' = [jobs EXCEPT ![j].state_dict = STATE_DICT(state)]
  /\ lock' = [lock EXCEPT ![j] = NoWorker]
  /\ UNCHANGED <<now, flows, stats, pc, names, idx, force, cron_job, forced, lease, result>>

Next ==
  \/ Tick
  \/ \E h \in 1..Len(flows), o \in {"TERMINATED", "ERROR"} : FlowFinish(h, o)
  \/ \E j \in Jobs : EnableJob(j)
  \/ \E j \in Jobs : DisableJob(j)
  \/ \E w \in Workers \ CronWorkers, f \in BOOLEAN, ns \in NameLists :
       CallRunOnce(w, f, ns)
  \/ \E w \in CronWorkers, conf \in DisabledSystemJobsConfigs :
       ScheduleSystemCronFlows(w, conf)
  \/ \E w \in CronWorkers, ns \in ListJobs, raises \in BOOLEAN :
       LoopRunOnce(w, ns, raises)
  \/ \E w \in CronWorkers : LogError(w)
  \/ \E w \in CronWorkers : Sleep(w)
  \/ \E w \in Workers : OpenWithLock(w)
  \/ \E w \in Workers, is_flow \in BOOLEAN, opens \in BOOLEAN :
       RunJob(w, is_flow, opens)
  \/ \E w \in Workers : RunJobStart(w)
  \/ \E w \in Workers : Except(w)
  \/ \E w \in Workers : Close(w)

Spec == Init /\ [][Next]_vars

\* The steps of thread w.
WorkerNext(w) ==
  \/ \E conf \in DisabledSystemJobsConfigs : ScheduleSystemCronFlows(w, conf)
  \/ \E ns \in ListJobs, raises \in BOOLEAN : LoopRunOnce(w, ns, raises)
  \/ LogError(w)
  \/ Sleep(w)
  \/ OpenWithLock(w)
  \/ \E is_flow \in BOOLEAN, opens \in BOOLEAN : RunJob(w, is_flow, opens)
  \/ RunJobStart(w)
  \/ Except(w)
  \/ Close(w)

\* The CronWorker thread next to a caller of RunOnce(force=False), with the
\* clock and the engine; a thread that can take a step takes one.
NextCronWorker ==
  \/ Tick
  \/ \E h \in 1..Len(flows), o \in {"TERMINATED", "ERROR"} : FlowFinish(h, o)
  \/ \E w \in Workers \ CronWorkers, ns \in NameLists : CallRunOnce(w, FALSE, ns)
  \/ \E w \in Workers : WorkerNext(w)

SpecCronWorker ==
  Init /\ [][NextCronWorker]_vars /\ \A w \in Workers : WF_vars(WorkerNext(w))

\* A store with two jobs, for the passes of RunOnce over several jobs: the
\* passes of the two threads within one tick of the clock, without forced
\* calls and without EnableJob / DisableJob.
InitTwoJobs ==
  /\ now = 0
  /\ forced = 0
  /\ InitRest
  /\ jobs = [j \in Jobs |-> NewCronJob(CronArgs(1, 1, FALSE, 0), FALSE)]

NextTwoJobs ==
  \/ \E h \in 1..Len(flows), o \in {"TERMINATED", "ERROR"} : FlowFinish(h, o)
  \/ \E w \in Workers \ CronWorkers, ns \in {n \in NameLists : Len(n) = 2} :
       CallRunOnce(w, FALSE, ns)
  \/ \E w \in Workers : WorkerNext(w)

SpecTwoJobs == InitTwoJobs /\ [][NextTwoJobs]_vars

\* The CronManager as its callers see it: jobs are created, redefined,
\* enabled, disabled and deleted while the clock runs; no thread evaluates.
InitManager ==
  /\ now = 0
  /\ forced = 0
  /\ InitRest
  /\ jobs = [j \in {} |-> NoObject]

NextManager ==
  \/ Tick
  \/ \E p \in Frequencies, en \in BOOLEAN, f \in FlowNames, uid \in 0..MaxUid :
       \E job_id \in {"A", NoJob} : CreateJob(f, p, 0, FALSE, job_id, en, uid)
  \/ \E j \in JobIds : EnableJob(j)
  \/ \E j \in JobIds : DisableJob(j)
  \/ \E j \in JobIds : DeleteJob(j)

SpecManager == InitManager /\ [][NextManager]_vars

\* The job of a StatefulSystemCronFlow: the CronWorker thread evaluates it,
\* the flow writes its state, and a caller calls Run on an object opened
\* without a lock.
NextStore ==
  \/ Tick
  \/ \E h \in 1..Len(flows), o \in {"TERMINATED", "ERROR"} : FlowFinish(h, o)
  \/ \E w \in Workers : WorkerNext(w)
  \/ \E j \in Jobs, state \in States : WriteCronStateOpen(j, state)
  \/ \E j \in DOMAIN jobs, state \in States : WriteCronStateSet(j, state)
  \/ \E w \in Workers \ CronWorkers, j \in Jobs, f \in BOOLEAN : CallRun(w, j, f)
  \/ \E w \in Workers : Raised(w)

SpecStore == Init /\ [][NextStore]_vars

\* The job of a StatefulSystemCronFlow whose flow reads and writes its
\* state while a caller of RunOnce evaluates the job.
NextState ==
  \/ Tick
  \/ \E h \in 1..Len(flows), o \in {"TERMINATED", "ERROR"} : FlowFinish(h, o)
  \/ \E j \in Jobs, state \in StateDicts : WriteCronStateOpen(j, state)
  \/ \E j \in DOMAIN jobs, state \in StateDicts : WriteCronStateSet(j, state)
  \/ \E j \in Jobs : ReadCronState(j)
  \/ \E w \in Workers \ CronWorkers : CallRunOnce(w, FALSE, <<"A">>)
  \/ \E w \in Workers \ CronWorkers : OpenWithLock(w)
  \/ \E w \in Workers \ CronWorkers : RunJob(w, TRUE, TRUE)
  \/ \E w \in Workers \ CronWorkers : RunJobStart(w)
  \/ \E w \in Workers \ CronWorkers : Close(w)

SpecState == Init /\ [][NextState]_vars

\* The job of a StatefulSystemCronFlow is defined again, by CreateJob with
\* its job_id and by the ScheduleSystemCronFlows of a starting CronWorker,
\* while an operator disables it, its flow writes its state and a caller of
\* RunOnce evaluates it.
NextRedefine ==
  \/ Tick
  \/ \E h \in 1..Len(flows), o \in {"TERMINATED", "ERROR"} : FlowFinish(h, o)
  \/ \E j \in Jobs : DisableJob(j)
  \/ \E p \in Frequencies, en \in BOOLEAN : CreateJob("B", p, 0, FALSE, "A", en, 0)
  \/ \E j \in Jobs : WriteCronStateOpen(j, {<<"watermark", 1>>})
  \/ \E j \in DOMAIN jobs : WriteCronStateSet(j, {<<"watermark", 1>>})
  \/ \E w \in CronWorkers, conf \in DisabledSystemJobsConfigs :
       ScheduleSystemCronFlows(w, conf)
  \/ \E w \in Workers \ CronWorkers : CallRunOnce(w, FALSE, <<"A">>)
  \/ \E w \in Workers \ CronWorkers : OpenWithLock(w)
  \/ \E w \in Workers \ CronWorkers : RunJob(w, TRUE, TRUE)
  \/ \E w \in Workers \ CronWorkers : RunJobStart(w)
  \/ \E w \in Workers \ CronWorkers : Close(w)

SpecRedefine == Init /\ [][NextRedefine]_vars

\* One job whose runs last longer than its period, or whose start_time the
\* clock does not reach, evaluated by the callers of RunOnce.
ReapCronArgs == {CronArgs(1, 1, FALSE, 0), CronArgs(1, 0, FALSE, MaxTime + 1)}

InitReap ==
  /\ now = 0
  /\ forced = 0
  /\ InitRest
  /\ \E args \in ReapCronArgs : jobs = [j \in {"A"} |-> NewCronJob(args, FALSE)]

NextReap ==
  \/ Tick
  \/ \E h \in 1..Len(flows), o \in {"TERMINATED", "ERROR"} : FlowFinish(h, o)
  \/ \E j \in Jobs : EnableJob(j)
  \/ \E j \in Jobs : DisableJob(j)
  \/ \E w \in Workers \ CronWorkers, f \in BOOLEAN, ns \in NameLists :
       CallRunOnce(w, f, ns)
  \/ \E w \in Workers \ CronWorkers : OpenWithLock(w)
  \/ \E w \in Workers \ CronWorkers, is_flow \in BOOLEAN, opens \in BOOLEAN :
       RunJob(w, is_flow, opens)
  \/ \E w \in Workers \ CronWorkers : RunJobStart(w)
  \/ \E w \in Workers \ CronWorkers : Except(w)
  \/ \E w \in Workers \ CronWorkers : Close(w)

SpecReap == InitReap /\ [][NextReap]_vars

\* Two jobs with the flows their finished runs left below them, and a
\* caller that prunes them.
PastRuns(t) ==
  {fl \in UNION {[1..n -> [job : Jobs, state : {"TERMINATED"}, terminate : {FALSE},
                          age : 0..t]] : n \in 0..MaxRuns} :
     \A a, b \in 1..Len(fl) : a < b => fl[a].age <= fl[b].age}

\* The record of job j after the runs of fl were reaped.
JobAfterRuns(fl, j) ==
  LET runs == {h \in 1..Len(fl) : fl[h].job = j}
      new == NewCronJob(CronArgs(1, 0, FALSE, 0), FALSE)
  IN IF runs = {} THEN new
     ELSE [new EXCEPT
             !.last_run_time = fl[CHOOSE h \in runs : \A k \in runs : k <= h].age,
             !.last_run_status = "OK"]

InitRuns ==
  /\ now \in 0..MaxTime
  /\ forced = 0
  /\ lock = [j \in JobIds |-> NoWorker]
  /\ stats = [cron_internal_error |-> 0,
              cron_job_timeout |-> [j \in JobIds |-> 0],
              cron_job_failure |-> [j \in JobIds |-> 0],
              cron_job_latency |-> [j \in JobIds |-> 0]]
  /\ pc = [w \in Workers |-> IF w \in CronWorkers THEN "schedule" ELSE "idle"]
  /\ names = [w \in Workers |-> <<>>]
  /\ idx = [w \in Workers |-> 0]
  /\ force = [w \in Workers |-> FALSE]
  /\ cron_job = [w \in Workers |-> NoObject]
  /\ lease = [j \in JobIds |-> NoTime]
  /\ result = NoResult
  /\ flows \in PastRuns(now)
  /\ jobs = [j \in Jobs |-> JobAfterRuns(flows, j)]

NextRuns ==
  \/ Tick
  \/ \E j \in Jobs, cutoff \in {NoTime} \cup 0..(MaxTime + 1) : DeleteOldRuns(j, cutoff)

SpecRuns == InitRuns /\ [][NextRuns]_vars

\* The CronWorker thread polls every sleep interval, its passes taking no
\* time, next to a process that takes a lease and may die with it.
NextLease ==
  \/ \E h \in 1..Len(flows), o \in {"TERMINATED", "ERROR"} : FlowFinish(h, o)
  \/ \E w \in Workers \ CronWorkers, ns \in NameLists : CallRunOnce(w, FALSE, ns)
  \/ \E w \in Workers \ CronWorkers : OpenWithLockThenCrash(w)
  \/ \E w \in CronWorkers, conf \in DisabledSystemJobsConfigs :
       ScheduleSystemCronFlows(w, conf)
  \/ \E w \in CronWorkers, ns \in ListJobs, raises \in BOOLEAN :
       LoopRunOnce(w, ns, raises)
  \/ \E w \in CronWorkers : LogError(w)
  \/ \E w \in CronWorkers : SleepFor(w)
  \/ \E w \in Workers : OpenWithLock(w)
  \/ \E w \in Workers, is_flow \in BOOLEAN, opens \in BOOLEAN :
       RunJob(w, is_flow, opens)
  \/ \E w \in Workers : RunJobStart(w)
  \/ \E w \in Workers : Except(w)
  \/ \E w \in Workers : Close(w)

SpecLease == Init /\ [][NextLease]_vars

\* A job that is deleted, and created again, while a caller of RunOnce
\* evaluates it; the job is created again while fewer than MaxFlows flows
\* were started.
NextDelete ==
  \/ Tick
  \/ \E h \in 1..Len(flows), o \in {"TERMINATED", "ERROR"} : FlowFinish(h, o)
  \/ \E j \in Jobs : DeleteJob(j)
  \/ /\ Len(flows) < MaxFlows
     /\ \E en \in BOOLEAN : CreateJob("B", 1, 0, FALSE, "A", en, 0)
  \/ \E w \in Workers \ CronWorkers, ns \in NameLists : CallRunOnce(w, FALSE, ns)
  \/ \E w \in Workers \ CronWorkers : OpenWithLock(w)
  \/ \E w \in Workers \ CronWorkers, is_flow \in BOOLEAN, opens \in BOOLEAN :
       RunJob(w, is_flow, opens)
  \/ \E w \in Workers \ CronWorkers : RunJobStart(w)
  \/ \E w \in Workers \ CronWorkers : Except(w)
  \/ \E w \in Workers \ CronWorkers : Close(w)

SpecDelete == Init /\ [][NextDelete]_vars

\* A job with period 1 next to the system job, polled by the CronWorker and
\* by a caller of RunOnce(force=False).  The threads take their steps, the
\* clock advances, the engine finishes the runs it tracks, and the data
\* store does not fail every ListJobs.
InitLive ==
  /\ now = 0
  /\ forced = 0
  /\ InitRest
  /\ \E args \in {CronArgs(1, 1, FALSE, 0), CronArgs(1, 0, FALSE, 0)} :
       jobs = [j \in {"B"} |-> NewCronJob(args, FALSE)]

\* The steps of thread w, ScheduleSystemCronFlows finding the system job
\* in Cron.disabled_system_jobs.
LiveWorkerNext(w) ==
  \/ ScheduleSystemCronFlows(w, {"A"})
  \/ \E ns \in ListJobs, raises \in BOOLEAN : LoopRunOnce(w, ns, raises)
  \/ LogError(w)
  \/ Sleep(w)
  \/ OpenWithLock(w)
  \/ \E is_flow \in BOOLEAN, opens \in BOOLEAN : RunJob(w, is_flow, opens)
  \/ RunJobStart(w)
  \/ Except(w)
  \/ Close(w)

NextLive ==
  \/ Tick
  \/ \E h \in 1..Len(flows), o \in {"TERMINATED", "ERROR"} : FlowFinish(h, o)
  \/ \E w \in Workers \ CronWorkers : CallRunOnce(w, FALSE, <<"B">>)
  \/ \E w \in Workers : LiveWorkerNext(w)

SpecLive ==
  /\ InitLive /\ [][NextLive]_vars
  /\ \A w \in Workers : WF_vars(LiveWorkerNext(w))
  /\ \A w \in CronWorkers : SF_vars(\E ns \in ListJobs : LoopRunOnce(w, ns, FALSE))
  /\ WF_vars(Tick)
  /\ WF_vars(\E h \in 1..Len(flows), o \in {"TERMINATED", "ERROR"} : FlowFinish(h, o))

\* ================================================================ claims
\* Thread w is inside the with block of RunOnce, holding the object of job j.
Holds(w, j) == pc[w] \in {"Run", "due", "except", "Close"} /\ cron_job[w].urn = j

\* Thread w takes a step.
Steps(w) ==
  \/ pc'[w] # pc[w]
  \/ idx'[w] # idx[w]
  \/ cron_job'[w] # cron_job[w]

\* The urn thread w is about to open with the lock.
Wanted(w) == names[w][idx[w]]

\* C1: two threads are never inside the evaluation of the same job at the
\* same time; the thread inside holds the lease; and a thread whose lease
\* request is refused leaves the job record, the flows and the counters as
\* they are and does not enter the evaluation.
C1_OneHolder ==
  \A j \in Jobs : \A w1, w2 \in Workers :
    Holds(w1, j) /\ Holds(w2, j) => w1 = w2

C1_HolderHasLease ==
  \A j \in Jobs : \A w \in Workers : Holds(w, j) => lock[j] = w

C1_RefusedChangesNothing ==
  \A w \in Workers :
    (pc[w] = "OpenWithLock" /\ ~LockFree(Wanted(w)) /\ Steps(w))
      => /\ jobs' = jobs
         /\ flows' = flows
         /\ stats' = stats
         /\ lock' = lock
         /\ pc'[w] \notin {"Run", "due", "except", "Close"}

C1_LeaseExcludes ==
  /\ [](C1_OneHolder /\ C1_HolderHasLease)
  /\ [][C1_RefusedChangesNothing]_vars

\* One thread is inside the evaluation of A while the other asks for A.
C1_Witness ==
  \E w1, w2 \in Workers :
    /\ w1 # w2
    /\ pc[w1] = "due" /\ cron_job[w1].urn = "A"
    /\ pc[w2] = "OpenWithLock" /\ Wanted(w2) = "A"

\* A flow is started for job j in this step.
NewFlowFor(j) == Len(flows') > Len(flows) /\ flows'[Len(flows')].job = j

\* The handle of job j is replaced by another handle in this step.
HandleReplaced(j) ==
  /\ jobs[j].current_flow_urn # NoFlow
  /\ jobs'[j].current_flow_urn \notin {jobs[j].current_flow_urn, NoFlow}

\* C2 as stated: for a job with allow_overruns = false, whatever the
\* evaluations, no run is started while a handle is tracked, and a tracked
\* handle gives way to another handle only after it was cleared.
C2_NeverStartedWhileTracked ==
  [][\A j \in DOMAIN jobs :
       (~jobs[j].cron_args.allow_overruns /\ jobs[j].current_flow_urn # NoFlow)
         => ~NewFlowFor(j) /\ ~HandleReplaced(j)]_vars

\* C2, amended: an evaluation with force = false that read
\* allow_overruns = false when it opened the job starts no run while a handle
\* is tracked and leaves the tracked handle in place; only an evaluation
\* with force = true, or one that read allow_overruns = true, starts a run
\* for a job whose handle is tracked or puts a new handle in its place.
C2_UnforcedNeverStartedWhileTracked ==
  [][\A j \in DOMAIN jobs :
       (jobs[j].current_flow_urn # NoFlow /\ (NewFlowFor(j) \/ HandleReplaced(j)))
         => \E w \in Workers :
              /\ Holds(w, j) /\ pc[w] = "due"
              /\ force[w] \/ cron_job[w].cron_args.allow_overruns]_vars

\* A non-forced evaluation stands at the due check of a job whose period is
\* over and whose start time is reached, with a tracked handle and no overruns.
C2_Witness ==
  \E w \in Workers :
    /\ pc[w] = "due" /\ ~force[w]
    /\ ~cron_job[w].disabled
    /\ ~cron_job[w].cron_args.allow_overruns
    /\ cron_job[w].current_flow_urn # NoFlow
    /\ now >= cron_job[w].cron_args.start_time
    /\ now > cron_job[w].last_run_time + cron_job[w].cron_args.periodicity

\* The evaluation of thread w begins with a lifetime set, a tracked handle
\* and more than the lifetime gone since the last run.
BeginsPastLifetime(w) ==
  /\ pc[w] = "Run"
  /\ cron_job[w].cron_args.lifetime # 0
  /\ cron_job[w].current_flow_urn # NoFlow
  /\ now - cron_job[w].last_run_time > cron_job[w].cron_args.lifetime

TimeoutRecorded(j) ==
  /\ jobs'[j].last_run_status = "TIMEOUT"
  /\ jobs'[j].current_flow_urn = NoFlow

\* C3 as stated: an evaluation that begins past the lifetime records
\* TIMEOUT and clears the handle, whatever the engine says about the run.
C3_TimeoutWhateverEngineState ==
  [][\A w \in Workers :
       (BeginsPastLifetime(w) /\ Steps(w)) => TimeoutRecorded(cron_job[w].urn)]_vars

\* C3, amended: an evaluation that begins past the lifetime while the
\* handle opens as a flow that the engine reports RUNNING records TIMEOUT
\* and clears the handle, and then goes on to the due check, whatever
\* DueToRun will return there.
C3_TimeoutOfRunningRun ==
  [][\A w \in Workers : \A opens \in BOOLEAN :
       (/\ BeginsPastLifetime(w)
        /\ RunnerIsRunning(flows, cron_job[w].current_flow_urn)
        /\ RunJob(w, TRUE, opens))
         => TimeoutRecorded(cron_job[w].urn) /\ pc'[w] = "due"]_vars

\* A timeout was recorded by an evaluation whose due check will say no.
C3_Witness ==
  \E w \in Workers :
    /\ pc[w] = "due" /\ ~force[w]
    /\ cron_job[w].last_run_status = "TIMEOUT"
    /\ cron_job[w].current_flow_urn = NoFlow
    /\ now - cron_job[w].last_run_time > cron_job[w].cron_args.lifetime
    /\ cron_job[w].cron_args.lifetime # 0
    /\ ~cron_job[w].disabled
    /\ ~DueToRun(cron_job[w], now)

\* C4 as stated: no run is started for a job whose disabled flag is true.
C4_NeverStartedWhileDisabled ==
  [][\A j \in DOMAIN jobs : jobs[j].disabled => ~NewFlowFor(j)]_vars

\* C4, amended: a run is started only by an evaluation with force = true or
\* by one that read disabled = false when it opened the job; an evaluation
\* with force = false that read disabled = true starts nothing.
C4_UnforcedNeverStartedWhileDisabled ==
  [][\A j \in DOMAIN jobs :
       NewFlowFor(j)
         => \E w \in Workers :
              /\ Holds(w, j) /\ pc[w] = "due"
              /\ force[w] \/ ~cron_job[w].disabled]_vars

\* A non-forced evaluation has passed the due check of a disabled job that
\* never ran and whose start time is reached: nothing was started.
C4_Witness ==
  \E w \in Workers :
    /\ pc[w] = "Close" /\ ~force[w]
    /\ cron_job[w].disabled
    /\ cron_job[w].last_run_time = NoTime
    /\ cron_job[w].current_flow_urn = NoFlow
    /\ now >= cron_job[w].cron_args.start_time

\* The decision as the specification states it.
DueDecision(cj, t) ==
  IF cj.disabled THEN FALSE
  ELSE IF t < cj.cron_args.start_time THEN FALSE
  ELSE IF cj.last_run_time = NoTime THEN TRUE
  ELSE /\ t > cj.last_run_time + cj.cron_args.periodicity
       /\ (cj.cron_args.allow_overruns \/ cj.current_flow_urn = NoFlow)

C5_SameDecision ==
  /\ \A j \in DOMAIN jobs : DueToRun(jobs[j], now) = DueDecision(jobs[j], now)
  /\ \A w \in Workers :
       pc[w] \in {"Run", "due"}
         => DueToRun(cron_job[w], now) = DueDecision(cron_job[w], now)

C5_DecisionActedOn ==
  \A w \in Workers :
    (pc[w] = "due" /\ ~force[w] /\ Steps(w))
      => (NewFlowFor(cron_job[w].urn) <=> DueDecision(cron_job[w], now))

\* C5: for every job record of the store and every object under evaluation,
\* at every time, DueToRun returns the decision of the specification (false
\* if disabled; false before start_time; true if never run; otherwise true
\* exactly when now > last_run_time + periodicity and overruns are allowed
\* or no handle is tracked), and a non-forced evaluation starts a run
\* exactly when that decision is true.
C5_DueToRunDecision ==
  /\ []C5_SameDecision
  /\ [][C5_DecisionActedOn]_vars

\* A due check finds the period over, a handle tracked and overruns allowed.
C5_Witness ==
  \E w \in Workers :
    /\ pc[w] = "due" /\ ~force[w]
    /\ cron_job[w].cron_args.allow_overruns
    /\ cron_job[w].current_flow_urn # NoFlow
    /\ now > cron_job[w].last_run_time + cron_job[w].cron_args.periodicity
    /\ DueToRun(cron_job[w], now)

\* The object of thread w: enabled, never run, start time reached.
NeverRunAndStartable(w) ==
  /\ ~cron_job[w].disabled
  /\ cron_job[w].last_run_time = NoTime
  /\ cron_job[w].cron_args.start_time <= now

\* The object of thread w right after its run was started: no overruns,
\* the clock still at last_run_time, the engine reporting the run RUNNING.
JustStarted(w) ==
  /\ ~force[w]
  /\ ~cron_job[w].cron_args.allow_overruns
  /\ cron_job[w].current_flow_urn # NoFlow
  /\ cron_job[w].last_run_time = now
  /\ RunnerIsRunning(flows, cron_job[w].current_flow_urn)

C6_FirstIsDue ==
  \A w \in Workers :
    (pc[w] \in {"Run", "due"} /\ NeverRunAndStartable(w)) => DueToRun(cron_job[w], now)

C6_FirstStarts ==
  \A w \in Workers :
    (pc[w] = "due" /\ ~force[w] /\ NeverRunAndStartable(w) /\ Steps(w))
      => /\ Len(flows') = Len(flows) + 1
         /\ flows'[Len(flows')] = [job |-> cron_job[w].urn, state |-> "RUNNING",
                                    terminate |-> FALSE, age |-> now]
         /\ jobs'[cron_job[w].urn].current_flow_urn = Len(flows')
         /\ jobs'[cron_job[w].urn].last_run_time = now

C6_SecondStartsNothing ==
  \A w \in Workers :
    /\ (pc[w] = "Run" /\ JustStarted(w) /\ RunJob(w, TRUE, TRUE))
         => (jobs' = jobs /\ flows' = flows /\ pc'[w] = "due")
    /\ (pc[w] = "due" /\ JustStarted(w) /\ Steps(w))
         => (jobs' = jobs /\ flows' = flows)

\* C6: for an enabled job that never ran and whose start time is reached,
\* DueToRun is true and a non-forced evaluation starts exactly one run,
\* records its handle and sets last_run_time to now; a non-forced
\* evaluation that follows at once (the clock has not moved), with the run
\* RUNNING and no overruns, starts nothing and leaves the handle as it is.
C6_FirstRunThenNothing ==
  /\ []C6_FirstIsDue
  /\ [][C6_FirstStarts /\ C6_SecondStartsNothing]_vars

\* The second evaluation stands at the due check right after the first run
\* of the job was started by a non-forced evaluation.
C6_Witness ==
  \E w \in Workers :
    /\ pc[w] = "due" /\ JustStarted(w)
    /\ ~cron_job[w].disabled
    /\ cron_job[w].last_run_status = "NONE"
    /\ forced = 0
    /\ Len(flows) = 1

\* C7: an evaluation that begins past the lifetime of a run the engine
\* reports RUNNING asks the engine to terminate that flow, records TIMEOUT,
\* clears the handle and adds one to cron_job_timeout, all in one go: the
\* flow is still RUNNING, the engine has confirmed nothing.
C7_TimeoutStopsRun ==
  [][\A w \in Workers : \A opens \in BOOLEAN :
       LET h == cron_job[w].current_flow_urn
           j == cron_job[w].urn
       IN (/\ BeginsPastLifetime(w)
           /\ RunnerIsRunning(flows, h)
           /\ RunJob(w, TRUE, opens))
            => /\ flows'[h].terminate /\ ~flows[h].terminate
               /\ flows'[h].state = "RUNNING"
               /\ jobs'[j].last_run_status = "TIMEOUT"
               /\ jobs'[j].current_flow_urn = NoFlow
               /\ stats'.cron_job_timeout[j] = stats.cron_job_timeout[j] + 1]_vars

\* A flow with a terminate request, still RUNNING, no longer tracked by its
\* job, whose status is TIMEOUT and whose timeout counter has moved.
C7_Witness ==
  \E h \in 1..Len(flows) :
    /\ flows[h].terminate /\ flows[h].state = "RUNNING"
    /\ jobs[flows[h].job].last_run_status = "TIMEOUT"
    /\ jobs[flows[h].job].current_flow_urn = NoFlow
    /\ stats.cron_job_timeout[flows[h].job] = 1

\* The pass of thread w goes on with its next urn, or ends after the last.
PassGoesOn(w) ==
  IF idx[w] < Len(names[w])
    THEN pc'[w] = "OpenWithLock" /\ idx'[w] = idx[w] + 1 /\ names'[w] = names[w]
    ELSE pc'[w] = Ret(w)

C8_NeverWaits ==
  \A w \in Workers : pc[w] = "OpenWithLock" => ENABLED OpenWithLock(w)

C8_SkipsAndGoesOn ==
  \A w \in Workers :
    /\ (pc[w] = "OpenWithLock" /\ lock[Wanted(w)] \notin {NoWorker, w} /\ Steps(w))
         => /\ jobs' = jobs /\ flows' = flows /\ lock' = lock
            /\ stats' = stats
            /\ PassGoesOn(w)
    /\ (pc[w] = "OpenWithLock" /\ lock[Wanted(w)] = NoWorker /\ Steps(w))
         => /\ pc'[w] = "Run"
            /\ cron_job'[w].urn = Wanted(w)
            /\ lock'[Wanted(w)] = w

\* C8: a thread whose pass comes to a job another thread holds the lease
\* of never waits: it changes neither that job nor any counter, and goes
\* on with the next job of its pass, which it evaluates if its lease is
\* free; this holds for both orders of the two jobs.
C8_HeldJobSkipped ==
  /\ []C8_NeverWaits
  /\ [][C8_SkipsAndGoesOn]_vars

\* W2 evaluates B, the second job of its pass, while W1 holds A, which is
\* enabled and never ran: W2 has skipped A.
C8_Witness ==
  /\ Holds("W1", "A") /\ pc["W1"] = "Run"
  /\ names["W2"] = <<"A", "B">> /\ idx["W2"] = 2
  /\ pc["W2"] = "Run" /\ cron_job["W2"].urn = "B"
  /\ ~jobs["A"].disabled /\ jobs["A"].last_run_time = NoTime

C9_ExceptionStaysInside ==
  \A w \in Workers :
    /\ (pc[w] = "Run" /\ Steps(w)) => pc'[w] \in {"due", "except"}
    /\ (pc[w] = "except" /\ Steps(w))
         => /\ stats'.cron_internal_error = stats.cron_internal_error + 1
            /\ pc'[w] = "Close"
            /\ cron_job'[w] = cron_job[w]
            /\ names'[w] = names[w] /\ idx'[w] = idx[w]
    /\ (pc[w] = "Close" /\ Steps(w))
         => /\ lock[cron_job[w].urn] = w
            /\ lock'[cron_job[w].urn] = NoWorker
            /\ PassGoesOn(w)

\* C9: an exception raised by the evaluation of a job is caught inside
\* RunOnce: cron_internal_error goes up by one, the with block is left and
\* the lease released, and the pass goes on with its next job.
C9_ExceptionContained ==
  [][C9_ExceptionStaysInside]_vars

\* The evaluation of the first of two jobs of a pass has raised.
C9_Witness ==
  \E w \in Workers :
    /\ pc[w] = "except"
    /\ Len(names[w]) = 2 /\ idx[w] = 1

\* C10 as stated: the loop of a started CronWorker never stops, RunOnce is
\* invoked again and again.
C10_RunOnceForever ==
  \A w \in CronWorkers : []<>(pc[w] = "RunOnce")

\* The thread is inside the while loop of _RunLoop.
InLoop(w) == pc[w] \notin {"schedule", "dead"}

C10_LoopStep ==
  \A w \in CronWorkers :
    /\ (InLoop(w) /\ Steps(w)) => pc'[w] # "dead"
    /\ (pc[w] = "log_error" /\ Steps(w)) => pc'[w] = "sleep"
    /\ (pc[w] = "sleep" /\ Steps(w)) => pc'[w] = "RunOnce"

\* C10, amended: once ScheduleSystemCronFlows has returned and the thread
\* is in its loop, the loop never stops: RunOnce is invoked again and
\* again, and an exception of a RunOnce pass is logged and followed by the
\* sleep and then by another RunOnce.
C10_LoopNeverStops ==
  /\ \A w \in CronWorkers : [](InLoop(w) => []<>(pc[w] = "RunOnce"))
  /\ [][C10_LoopStep]_vars

\* A RunOnce pass of the loop has raised, the exception is being logged.
C10_Witness ==
  \E w \in CronWorkers : pc[w] = "log_error"

\* C11: a CreateJob for a job_id that exists with a start_time stores the
\* arguments of the call but keeps the start_time the job had, and making
\* the same call again, at once or later, leaves the stored arguments as
\* they are.
C11_RedefinitionKeepsStartTime ==
  [][\A p \in Frequencies, en \in BOOLEAN, job_id \in Jobs :
       CreateJob("B", p, 0, FALSE, job_id, en, 0)
         => /\ job_id \in DOMAIN jobs
                 => jobs'[job_id].cron_args =
                      CronArgs(p, 0, FALSE, jobs[job_id].cron_args.start_time)
            /\ \A t \in now..MaxTime :
                 CreatedJobs(jobs', t, job_id, p, 0, FALSE, en)[job_id].cron_args
                   = jobs'[job_id].cron_args]_vars

\* Job A was redefined after its creation: another periodicity, the
\* start_time of the first call.
C11_Witness ==
  /\ "A" \in DOMAIN jobs
  /\ result.call = "CreateJob" /\ result.job_id = "A"
  /\ jobs["A"].cron_args.periodicity = 2
  /\ jobs["A"].cron_args.start_time = 0
  /\ now = 2

\* C12: the id CreateJob makes when none is given is the id of no job in
\* the store, so the call adds a job and leaves every job there as it is.
C12_AutoIdIsNew ==
  [][\A p \in Frequencies, en \in BOOLEAN, f \in FlowNames, uid \in 0..MaxUid :
       CreateJob(f, p, 0, FALSE, NoJob, en, uid)
         => /\ result'.job_id \notin DOMAIN jobs
            /\ \A k \in DOMAIN jobs : jobs'[k] = jobs[k]]_vars

\* C13 as stated: the disabled flag of a job is written under the lease of
\* the job, so it never changes while a thread holds the lease and
\* evaluates the job.
C13_FlagWrittenUnderLease ==
  [][\A j \in DOMAIN jobs :
       (\E w \in Workers : Holds(w, j)) => jobs'[j].disabled = jobs[j].disabled]_vars

C13_FlipAlwaysPossible ==
  \A j \in DOMAIN jobs : ENABLED (EnableJob(j) \/ DisableJob(j))

C13_FlipTouchesFlagOnly ==
  \A j \in DOMAIN jobs :
    (EnableJob(j) \/ DisableJob(j))
      => /\ jobs' = [jobs EXCEPT ![j].disabled = ~jobs[j].disabled]
         /\ lock' = lock
         /\ cron_job' = cron_job

\* C13, amended: EnableJob and DisableJob take no lease: the flip is never
\* refused or delayed by a held lease, it writes the disabled flag of the
\* stored record and nothing else, and a thread that holds the lease and
\* evaluates the job keeps the flag it read when it opened the job.
C13_FlagWrittenWithoutLease ==
  /\ []C13_FlipAlwaysPossible
  /\ [][C13_FlipTouchesFlagOnly]_vars

\* The stored flag was flipped while a thread evaluates the job under the
\* lease: the copy of the thread and the store disagree.
C13_Witness ==
  \E w \in Workers :
    /\ pc[w] \in {"Run", "due"}
    /\ lock[cron_job[w].urn] = w
    /\ jobs[cron_job[w].urn].disabled # cron_job[w].disabled

\* The attributes of a job record that belong to its runs.
RunAttrs(r) ==
  <<r.current_flow_urn, r.last_run_time, r.last_run_status, r.state_dict>>

\* The threads inside the with block of an OpenWithLock of job j.
LeaseHolderWrites(j) ==
  \/ /\ lock[j] \in Workers
     /\ pc[lock[j]] \in {"Run", "due"}
     /\ cron_job[lock[j]].urn = j
     /\ Steps(lock[j])
  \/ /\ lock[j] = FlowThread
     /\ lock'[j] = NoWorker
     /\ jobs' = [jobs EXCEPT ![j].state_dict = jobs'[j].state_dict]

\* C14: current_flow_urn, last_run_time, last_run_status and the state
\* dictionary of a job change only in a step of the thread that holds the
\* lease of the job at that moment: Run inside RunOnce, or WriteCronState.
C14_RunAttrsWrittenUnderLease ==
  [][\A j \in DOMAIN jobs \cap DOMAIN jobs' :
       RunAttrs(jobs'[j]) # RunAttrs(jobs[j]) => LeaseHolderWrites(j)]_vars

\* A state was written by the flow and a run was started by a thread, while
\* a caller is inside Run on an object opened without the lock.
C14_Witness ==
  \E j \in DOMAIN jobs :
    /\ jobs[j].state_dict # NoStateDict
    /\ jobs[j].current_flow_urn # NoFlow
    /\ \E w \in Workers : pc[w] = "Run" /\ cron_job[w].urn = j /\ lock[j] # w

\* LAST_RUN_STATUS of job j is written: its value changes, or a counter that
\* goes with a write is incremented.
StatusWritten(j) ==
  \/ jobs'[j].last_run_status # jobs[j].last_run_status
  \/ stats'.cron_job_failure[j] # stats.cron_job_failure[j]
  \/ stats'.cron_job_timeout[j] # stats.cron_job_timeout[j]

\* C15 as stated: last_run_status is written only for a tracked run that
\* the engine reports as finished, never for a run it reports as running.
C15_StatusOnlyForFinishedRun ==
  [][\A j \in DOMAIN jobs :
       StatusWritten(j)
         => /\ jobs[j].current_flow_urn # NoFlow
            /\ ~RunnerIsRunning(flows, jobs[j].current_flow_urn)]_vars

\* C15, amended: last_run_status is written only for a tracked run.  OK and
\* ERROR are written only for a run the engine reports as finished, ERROR
\* exactly for a run that ended in error; TIMEOUT is written for a run the
\* engine still reports as running, once its lifetime is exceeded and with
\* the terminate request.
C15_StatusOnlyForTrackedRun ==
  [][\A j \in DOMAIN jobs :
       StatusWritten(j)
         => LET h == jobs[j].current_flow_urn
                new == jobs'[j].last_run_status
            IN /\ h # NoFlow
               /\ new \in {"OK", "ERROR", "TIMEOUT"}
               /\ new \in {"OK", "ERROR"}
                    => /\ ~RunnerIsRunning(flows, h)
                       /\ new = "ERROR" <=> flows[h].state = "ERROR"
               /\ new = "TIMEOUT"
                    => /\ RunnerIsRunning(flows, h)
                       /\ LifetimeExceeded(jobs[j], now)
                       /\ flows'[h].terminate]_vars

\* TIMEOUT is on record for a run the engine still reports as running, after
\* an earlier run of the job was reaped with ERROR.
C15_Witness ==
  \E j \in DOMAIN jobs, h \in 1..Len(flows) :
    /\ flows[h].job = j /\ flows[h].state = "RUNNING" /\ flows[h].terminate
    /\ jobs[j].last_run_status = "TIMEOUT"
    /\ stats.cron_job_failure[j] = 1

\* Thread w, holding the lease, begins an evaluation of a job whose tracked
\* run the engine reports as finished.
BeginsWithFinishedRun(w) ==
  /\ pc[w] = "Run"
  /\ lock[cron_job[w].urn] = w
  /\ cron_job[w].current_flow_urn # NoFlow
  /\ ~RunnerIsRunning(flows, cron_job[w].current_flow_urn)

\* What the reaping of the finished run of job j with handle h leaves, but
\* for the latency event.
Reaped(j, h) ==
  /\ jobs'[j].last_run_status = IF flows[h].state = "ERROR" THEN "ERROR" ELSE "OK"
  /\ jobs'[j].current_flow_urn = NoFlow
  /\ stats'.cron_job_failure[j] =
       stats.cron_job_failure[j] + IF flows[h].state = "ERROR" THEN 1 ELSE 0
  /\ stats'.cron_job_timeout = stats.cron_job_timeout

\* C18 as stated: the evaluation that finds the tracked run finished
\* records ERROR or OK, clears the handle, increments cron_job_failure
\* exactly for ERROR and records a cron_job_latency event for both outcomes.
C18_ReapRecordsLatencyEitherWay ==
  [][\A w \in Workers :
       LET j == cron_job[w].urn
           h == cron_job[w].current_flow_urn
       IN (BeginsWithFinishedRun(w) /\ RunJob(w, TRUE, TRUE))
            => /\ Reaped(j, h)
               /\ stats'.cron_job_latency[j] = stats.cron_job_latency[j] + 1]_vars

\* C18, amended: the cron_job_latency event is recorded for the OK outcome
\* only; a run that ended in error leaves the latency events as they are.
C18_ReapRecordsLatencyForOK ==
  [][\A w \in Workers :
       LET j == cron_job[w].urn
           h == cron_job[w].current_flow_urn
       IN (BeginsWithFinishedRun(w) /\ RunJob(w, TRUE, TRUE))
            => /\ Reaped(j, h)
               /\ stats'.cron_job_latency[j] =
                    stats.cron_job_latency[j] + IF flows[h].state = "ERROR" THEN 0 ELSE 1]_vars

\* A run that ended in error was reaped: ERROR and the failure are on
\* record, no latency event is.
C18_Witness ==
  \E w \in Workers, h \in 1..Len(flows) :
    /\ pc[w] = "due"
    /\ flows[h].job = cron_job[w].urn /\ flows[h].state = "ERROR"
    /\ jobs[cron_job[w].urn].last_run_status = "ERROR"
    /\ jobs[cron_job[w].urn].current_flow_urn = NoFlow
    /\ stats.cron_job_failure[cron_job[w].urn] = 1
    /\ stats.cron_job_latency[cron_job[w].urn] = 0

\* Thread w is at the due check of an evaluation that cleared the handle of
\* a finished or timed out run: the flow is still followed, its outcome is
\* on record, the handle is gone.
ReapedNow(w) ==
  /\ pc[w] = "due"
  /\ cron_job[w].current_flow_urn = NoFlow
  /\ \E h \in 1..Len(flows) :
       /\ flows[h].job = cron_job[w].urn
       /\ \/ flows[h].terminate /\ cron_job[w].last_run_status = "TIMEOUT"
          \/ flows[h].state = "ERROR" /\ cron_job[w].last_run_status = "ERROR"
          \/ flows[h].state = "TERMINATED" /\ cron_job[w].last_run_status = "OK"

\* The period of the job of thread w has elapsed since its last run.
PeriodElapsed(w) ==
  now > Expiry(cron_job[w].cron_args.periodicity, cron_job[w].last_run_time)

\* The evaluation of thread w starts a run in this step.
StartedNow(w) ==
  /\ NewFlowFor(cron_job[w].urn)
  /\ jobs'[cron_job[w].urn].current_flow_urn = Len(flows')
  /\ jobs'[cron_job[w].urn].last_run_time = now

\* An evaluation that finds the run finished or past its lifetime clears
\* the handle and goes on to the due check.
C19_ReapGoesOnToDueCheck ==
  \A w \in Workers :
    (/\ BeginsWithFinishedRun(w) \/ (BeginsPastLifetime(w) /\ lock[cron_job[w].urn] = w
                                     /\ RunnerIsRunning(flows, cron_job[w].current_flow_urn))
     /\ RunJob(w, TRUE, TRUE))
      => cron_job'[w].current_flow_urn = NoFlow /\ pc'[w] = "due"

\* C19 as stated: an evaluation of an enabled job that timed out or reaped
\* the tracked run starts the next run in the same evaluation when
\* now > last_run_time + periodicity, and ends with no tracked handle when
\* the period has not elapsed.
C19_RestartIffPeriodElapsed ==
  [][/\ C19_ReapGoesOnToDueCheck
     /\ \A w \in Workers :
          (ReapedNow(w) /\ ~cron_job[w].disabled /\ RunJobStart(w))
            => IF PeriodElapsed(w)
                 THEN StartedNow(w)
                 ELSE jobs'[cron_job[w].urn].current_flow_urn = NoFlow]_vars

\* C19, amended: the next run is started in the same evaluation when the
\* evaluation is forced, or when the period has elapsed and start_time is
\* reached; otherwise the evaluation ends with no tracked handle.
C19_RestartIffForcedOrDue ==
  [][/\ C19_ReapGoesOnToDueCheck
     /\ \A w \in Workers :
          (ReapedNow(w) /\ ~cron_job[w].disabled /\ RunJobStart(w))
            => IF force[w] \/ (PeriodElapsed(w) /\ now >= cron_job[w].cron_args.start_time)
                 THEN StartedNow(w)
                 ELSE jobs'[cron_job[w].urn].current_flow_urn = NoFlow]_vars

\* An unforced evaluation timed the run out and started the next run.
C19_Witness ==
  \E w \in Workers, h \in 1..Len(flows) :
    /\ pc[w] = "Close" /\ ~force[w]
    /\ flows[h].job = cron_job[w].urn /\ flows[h].terminate
    /\ jobs[cron_job[w].urn].current_flow_urn = Len(flows)
    /\ jobs[cron_job[w].urn].current_flow_urn # h
    /\ jobs[cron_job[w].urn].last_run_time = now
    /\ jobs[cron_job[w].urn].last_run_status = "TIMEOUT"

\* Thread w is about to execute Run on an object whose lease it does not
\* hold.
RunsUnlocked(w) == pc[w] = "Run" /\ lock[cron_job[w].urn] # w

C17_UnlockedRunRaisesFirst ==
  \A w \in Workers :
    /\ (RunsUnlocked(w) /\ Steps(w))
         => /\ pc'[w] = "raised"
            /\ jobs' = jobs
            /\ flows' = flows
            /\ stats' = stats
            /\ lock' = lock
    /\ (pc[w] = "raised" /\ Steps(w))
         => /\ result'.call = "Run" /\ result'.raised = "LockError"
            /\ pc'[w] = "idle"
            /\ jobs' = jobs /\ flows' = flows /\ stats' = stats /\ lock' = lock

\* C17: Run on an object whose lease the caller does not hold raises
\* LockError before any other step: no terminate request, no new run, no
\* change of the job record or of the counters, and the error reaches the
\* caller.
C17_UnlockedRunFails == [][C17_UnlockedRunRaisesFirst]_vars

\* Run raised LockError for a job whose tracked run is past its lifetime and
\* still running: a Run under the lease would have timed it out.
C17_Witness ==
  /\ result.call = "Run" /\ result.raised = "LockError"
  /\ \E j \in DOMAIN jobs :
       /\ jobs[j].current_flow_urn # NoFlow
       /\ LifetimeExceeded(jobs[j], now)
       /\ RunnerIsRunning(flows, jobs[j].current_flow_urn)
       /\ ~flows[jobs[j].current_flow_urn].terminate
       /\ stats.cron_job_timeout[j] = 0

\* The run-history entries of job j with a timestamp strictly before cutoff.
OlderThan(j, cutoff) ==
  {h \in 1..Len(flows) :
     flows[h].job = j /\ flows[h].state # "DELETED" /\ flows[h].age < cutoff}

C16_DeleteOldRunsStep ==
  \A j \in Jobs :
    /\ \A cutoff \in 0..(MaxTime + 1) :
         DeleteOldRuns(j, cutoff)
           => /\ Len(flows') = Len(flows)
              /\ \A h \in 1..Len(flows) :
                   IF h \in OlderThan(j, cutoff)
                     THEN flows'[h].state = "DELETED"
                     ELSE flows'[h] = flows[h]
              /\ result'.call = "DeleteOldRuns"
              /\ result'.raised = ""
              /\ result'.count = Cardinality(OlderThan(j, cutoff))
    /\ DeleteOldRuns(j, NoTime)
         => /\ result'.call = "DeleteOldRuns"
            /\ result'.raised = "ValueError"
            /\ flows' = flows
            /\ jobs' = jobs

\* C16: DeleteOldRuns(job, cutoff) deletes exactly the flows of the job made
\* strictly before cutoff, leaves the flows made at or after cutoff and the
\* flows of other jobs in place, and returns the number of flows deleted;
\* with cutoff None it raises ValueError and deletes nothing.
C16_DeleteOldRunsExact == [][C16_DeleteOldRunsStep]_vars

\* A call deleted two flows of a job and left a flow of the same job, made
\* at the cutoff or later, and a flow of the other job in place.
C16_Witness ==
  /\ result.call = "DeleteOldRuns" /\ result.count = 2
  /\ \E a, b, c \in 1..Len(flows) :
       /\ a # b
       /\ flows[a].job = flows[b].job /\ flows[b].job = flows[c].job
       /\ flows[a].state = "DELETED" /\ flows[b].state = "DELETED"
       /\ flows[c].state # "DELETED"
       /\ flows[c].age > flows[a].age /\ flows[c].age > flows[b].age

\* The lease of job j was left behind by a process that died holding it.
Abandoned(j) == lock[j] \in Workers /\ pc[lock[j]] = "crashed"

\* Thread w gets the lease of the job it asks for.
GetsLease(w) == pc'[w] = "Run" /\ lock'[Wanted(w)] = w

\* C20 as stated: with lease_time 600 s and sleep 300 s, the lease a
\* crashed worker left behind has expired when the next polling cycle of
\* another worker, one sleep interval later, asks for the job: the job is
\* not skipped in that cycle.
C20_AbandonedLeaseFreeNextCycle ==
  [][\A w \in CronWorkers :
       (/\ pc[w] = "OpenWithLock"
        /\ Abandoned(Wanted(w))
        /\ now >= lease[Wanted(w)] - lease_time + sleep
        /\ Steps(w))
         => GetsLease(w)]_vars

C20_LeaseStep ==
  /\ \A w \in Workers :
       (pc'[w] = "crashed" /\ pc[w] # "crashed")
         => lease'[Wanted(w)] = now + 2 * sleep /\ lock'[Wanted(w)] = w
  /\ \A w \in CronWorkers :
       (pc[w] = "OpenWithLock" /\ Abandoned(Wanted(w)) /\ Steps(w))
         => IF now >= lease[Wanted(w)]
              THEN GetsLease(w)
              ELSE /\ pc'[w] # "Run"
                   /\ lock' = lock /\ lease' = lease /\ jobs' = jobs /\ flows' = flows

\* C20, amended: the lease a crashed worker left behind lasts two sleep
\* intervals (600 s against 300 s); a polling cycle that asks for the job
\* before the 600 s are over, the cycle 300 s after the crash among them,
\* skips the job and changes nothing; a cycle that asks 600 s after the
\* lease was taken or later gets the lease.
C20_AbandonedLeaseFreeAfterLeaseTime == [][C20_LeaseStep]_vars

\* The CronWorker skipped the job one sleep interval after the crash and
\* holds its lease two sleep intervals after it.
C20_Witness ==
  \E w \in CronWorkers, v \in Workers \ CronWorkers :
    /\ pc[v] = "crashed"
    /\ pc[w] = "Run" /\ lock[cron_job[w].urn] = w
    /\ Wanted(v) = cron_job[w].urn
    /\ now = 2 * sleep

\* A step of CreateJob that returns job id j.
CreatesJob(j) ==
  /\ result'.call = "CreateJob" /\ result'.job_id = j
  /\ pc' = pc /\ cron_job' = cron_job /\ flows' = flows /\ now' = now

C21_DeleteTakesNoLease ==
  /\ \A j \in DOMAIN jobs : ENABLED DeleteJob(j)
  /\ \A ns \in ListJobs : \A k \in 1..Len(ns) : ns[k] \in DOMAIN jobs

C21_DeletedStaysDeleted ==
  \A j \in JobIds :
    /\ DeleteJob(j) => lock' = lock /\ lease' = lease /\ j \notin DOMAIN jobs'
    /\ (j \notin DOMAIN jobs /\ j \in DOMAIN jobs') => CreatesJob(j)

PeriodOver(j) ==
  /\ \E w \in CronWorkers : InLoop(w)
  /\ j \in DOMAIN jobs
  /\ ~jobs[j].disabled
  /\ now >= jobs[j].cron_args.start_time
  /\ \/ jobs[j].last_run_time = NoTime
     \/ now > Expiry(jobs[j].cron_args.periodicity, jobs[j].last_run_time)

\* A run of job j was started and its period has not elapsed since.
StartedInPeriod(j) ==
  /\ j \in DOMAIN jobs
  /\ jobs[j].last_run_time # NoTime
  /\ now <= Expiry(jobs[j].cron_args.periodicity, jobs[j].last_run_time)

\* C22: with a CronWorker in its loop, threads that take their steps and
\* runs that finish or have a lifetime, a job that is enabled, past its
\* start_time and past its period gets a run started, whenever that is the
\* case (the system job is disabled by the configuration and left out).
C22_DueJobIsStarted ==
  \A j \in Jobs \ SystemCronFlows : PeriodOver(j) ~> StartedInPeriod(j)

\* The second run of the job was started, one tick after its period was over.
C22_Witness ==
  /\ jobs["B"].last_run_time = 2
  /\ jobs["B"].current_flow_urn # NoFlow
  /\ \E h \in 1..Len(flows) : flows[h].job = "B" /\ h # jobs["B"].current_flow_urn
  /\ \E w \in CronWorkers : InLoop(w)

C23_HandleHasStartTime ==
  /\ \A j \in DOMAIN jobs :
       jobs[j].current_flow_urn # NoFlow => jobs[j].last_run_time # NoTime
  /\ \A w \in Workers :
       cron_job[w].current_flow_urn # NoFlow => cron_job[w].last_run_time # NoTime

C23_StartTimeStep ==
  \A j \in DOMAIN jobs \cap DOMAIN jobs' :
    /\ jobs[j].last_run_time # NoTime => jobs'[j].last_run_time # NoTime
    /\ jobs'[j].current_flow_urn \notin {NoFlow, jobs[j].current_flow_urn}
         => jobs'[j].last_run_time = now

\* C23: a job record, and every object opened from it, has a CURRENT_FLOW_URN
\* only together with a LAST_RUN_TIME: the two are written together when a
\* run starts and LAST_RUN_TIME is never cleared, so KillOldFlows reads a
\* LAST_RUN_TIME for every run it finds running.
C23_TrackedRunHasStartTime ==
  /\ []C23_HandleHasStartTime
  /\ [][C23_StartTimeStep]_vars

\* KillOldFlows finds the run running and computes its elapsed time from
\* the LAST_RUN_TIME that was written with the handle.
C23_Witness ==
  \E w \in Workers :
    /\ pc[w] = "Run" /\ lock[cron_job[w].urn] = w
    /\ cron_job[w].current_flow_urn # NoFlow
    /\ RunnerIsRunning(flows, cron_job[w].current_flow_urn)
    /\ cron_job[w].last_run_time = 1
    /\ now = 2
    /\ stats.cron_internal_error = 0

\* Thread w, in a pass that is not forced, starts a run of job j in this step.
StartsUnforced(w, j) ==
  /\ pc[w] = "due" /\ cron_job[w].urn = j /\ ~force[w]
  /\ NewFlowFor(j)
  /\ jobs'[j].current_flow_urn = Len(flows')

C24_UnforcedStep ==
  \A j \in DOMAIN jobs \cap DOMAIN jobs' :
    /\ jobs'[j].last_run_time >= jobs[j].last_run_time
    /\ \A w \in Workers :
         StartsUnforced(w, j)
           => /\ jobs'[j].last_run_time = now
              /\ jobs[j].last_run_time # NoTime
                   => now > jobs[j].last_run_time
                              + cron_job[w].cron_args.periodicity

\* C24: LAST_RUN_TIME of a job never decreases, and a pass that is not forced
\* starts a run of a job only at a time strictly greater than the stored
\* LAST_RUN_TIME plus the periodicity, whichever threads made the passes.
C24_UnforcedStartsArePeriodApart == [][C24_UnforcedStep]_vars

\* Two runs of the same job were started by passes that were not forced.
C24_Witness ==
  /\ forced = 0
  /\ \E j \in DOMAIN jobs : \E h1, h2 \in 1..Len(flows) :
       /\ h1 < h2
       /\ flows[h1].job = j /\ flows[h2].job = j
       /\ jobs[j].current_flow_urn = h2
       /\ jobs[j].last_run_time = 2

\* WriteCronState(state) writes in this step: it leaves the with block.
WritesState(j, state) ==
  /\ lock[j] = FlowThread /\ lock'[j] = NoWorker
  /\ jobs' = [jobs EXCEPT ![j].state_dict = STATE_DICT(state)]

\* The state that was written last to job j; the empty state if none was.
StoredState(j) ==
  IF jobs[j].state_dict = NoStateDict THEN NoState ELSE ToDict(jobs[j].state_dict)

C25_StateStep ==
  \A j \in DOMAIN jobs \cap DOMAIN jobs' :
    /\ jobs'[j].state_dict # jobs[j].state_dict
         => \E state \in StateDicts \ {NoState} :
              /\ WritesState(j, state)
              /\ StoredState(j)' = state
    /\ jobs[j].state_dict # NoStateDict => jobs'[j].state_dict # NoStateDict
    /\ WriteCronStateOpen(j, NoState)
         => jobs' = jobs /\ lock' = lock /\ lease' = lease
    /\ ReadCronState(j)
         => /\ result'.state = StoredState(j) /\ result'.raised = ""
            /\ jobs' = jobs /\ lock' = lock /\ lease' = lease

Redefined(j, en) ==
  /\ jobs'[j].disabled = ~en
  /\ RunAttrs(jobs'[j]) = RunAttrs(jobs[j])
  /\ \A k \in DOMAIN jobs \ {j} : jobs'[k] = jobs[k]
  /\ flows' = flows /\ lock' = lock /\ lease' = lease

C26_RedefineStep ==
  \A j \in DOMAIN jobs :
    /\ \A p \in Frequencies, en \in BOOLEAN :
         CreateJob("B", p, 0, FALSE, j, en, 0) => Redefined(j, en)
    /\ \A w \in CronWorkers, conf \in DisabledSystemJobsConfigs :
         ScheduleSystemCronFlows(w, conf) /\ j \in SystemCronFlows
           => Redefined(j, enabled /\ j \notin conf)

\* C26: CreateJob with the job_id of a job that exists, and
\* ScheduleSystemCronFlows for a system job that exists, write DISABLED as
\* the negation of the enabled value asked for, whatever it was before, and
\* leave CURRENT_FLOW_URN, LAST_RUN_TIME, LAST_RUN_STATUS and STATE_DICT of
\* the job, the other jobs, the flows and the leases as they are.
C26_RedefinitionKeepsRun == [][C26_RedefineStep]_vars

\* CreateJob has enabled again the job that a thread had opened disabled;
\* its run is still tracked and running, and its state is still stored.
C26_Witness ==
  /\ result.call = "CreateJob" /\ result.job_id = "A"
  /\ ~jobs["A"].disabled
  /\ \E w \in Workers : cron_job[w].urn = "A" /\ cron_job[w].disabled
  /\ jobs["A"].current_flow_urn # NoFlow
  /\ RunnerIsRunning(flows, jobs["A"].current_flow_urn)
  /\ jobs["A"].state_dict # NoStateDict

====
